---------------------------- MODULE Spec2Model ----------------------------
(***************************************************************************)
(* A model of yoink.py: main() fans one process_item call per (category,   *)
(* item) out over a ThreadPoolExecutor; process_item resolves a PDF URL,   *)
(* downloads it to <folder>/<item>_new.pdf, derives the final name,        *)
(* compares checksums with an existing final file and then archives and    *)
(* replaces it, removes the temporary file, or moves it into place.        *)
(*                                                                         *)
(* The file system is modelled with POSIX semantics: a directory maps      *)
(* paths to inodes, an open file handle refers to an inode, os.rename      *)
(* rebinds a path and silently replaces an existing destination.           *)
(* Every network call and every file-system call of process_item is one    *)
(* step, so that the steps of the worker threads interleave as the         *)
(* threads of the pool do.                                                 *)
(***************************************************************************)
EXTENDS Naturals, Sequences, FiniteSets, TLC

\* ------------------------------------------------------------------ bounds

\* Number of invocations of the script (main) in one behaviour, for a
\* configuration with several items and for one with a single item.
MaxRuns == 1
MaxSeqRuns == 3
\* The remote documents a server may send are 1..MaxDocs, and 1..MaxSeqDocs
\* for a configuration with a single item.
MaxDocs == 2
MaxSeqDocs == 4
\* The wall clock runs over the seconds 0..MaxClock.
MaxClock == 1

\* --------------------------------------------------------------- constants

None == "None"
NoIno == ""
\* None where the value, when there is one, is a sequence: a URL, a digest,
\* a title as read from the metadata.
Nil == <<>>

Docs == 1..(IF MaxDocs > MaxSeqDocs THEN MaxDocs ELSE MaxSeqDocs)

\* The chunks resp.iter_content(1024) yields for document d: document 2 is
\* longer than a chunk, the others are one chunk each.
Body(d) == [k \in 1..(IF d = 2 THEN 2 ELSE 1) |-> <<d, k>>]

\* The /Title entry of document d's metadata, as a sequence of characters
\* (Nil: the document has no /Title, or PdfReader cannot read it).
RawTitle(d) ==
    CASE d % 4 = 1 -> <<"T">>
      [] d % 4 = 2 -> <<" ", "T", "?">>
      [] d % 4 = 3 -> <<"?", " ">>
      [] OTHER     -> Nil

\* The characters re.sub(r'[\\/*?:"<>|]', "", title) deletes.
IllegalChars == {"\\", "/", "*", "?", ":", "\"", "<", ">", "|"}

RECURSIVE Filter(_)
Filter(s) ==
    IF s = <<>> THEN <<>>
    ELSE IF Head(s) \in IllegalChars THEN Filter(Tail(s))
    ELSE <<Head(s)>> \o Filter(Tail(s))

RECURSIVE LStrip(_)
LStrip(s) ==
    IF s # <<>> /\ Head(s) = " " THEN LStrip(Tail(s)) ELSE s

RECURSIVE RStrip(_)
RStrip(s) ==
    IF s # <<>> /\ s[Len(s)] = " " THEN RStrip(SubSeq(s, 1, Len(s) - 1)) ELSE s

RECURSIVE Chars2Str(_)
Chars2Str(s) ==
    IF s = <<>> THEN "" ELSE Head(s) \o Chars2Str(Tail(s))

\* re.sub(...).strip() of get_pdf_title.
Sanitize(raw) == Chars2Str(RStrip(LStrip(Filter(raw))))

\* ------------------------------------------------------------ configuration

Category(name, folder, mode, items) ==
    [name |-> name, folder |-> folder, filename_mode |-> mode, items |-> items]

\* The configurations (args.threads and the 'downloads' section) the runs are
\* checked for; validate_config accepts each of them.
Configs ==
    { [threads |-> 1, cats |-> <<Category("parts", "x", "item", <<"A">>)>>],
      [threads |-> 1, cats |-> <<Category("notes", "x", "title", <<"A">>)>>],
      [threads |-> 2, cats |-> <<Category("parts", "x", "item", <<"A", "A_new">>)>>],
      [threads |-> 2, cats |-> <<Category("parts", "x", "item", <<"A", "A">>)>>],
      [threads |-> 2, cats |-> <<Category("notes", "x", "title", <<"A", "B">>)>>],
      [threads |-> 1, cats |-> <<Category("parts", "x", "item", <<"A">>),
                                 Category("notes", "y", "title", <<"B">>)>>] }

\* validate_config: the checks on one category's settings (the top-level
\* checks on 'version' and 'downloads' concern the YAML file, not the run).
validate_config(c) ==
    /\ \A k \in 1..Len(c.cats) :
          /\ c.cats[k].folder \in STRING
          /\ c.cats[k].filename_mode \in {"item", "title"}
          /\ \A j \in 1..Len(c.cats[k].items) : c.cats[k].items[j] \in STRING

\* The items of all categories, in submission order.
RECURSIVE AllItems(_)
AllItems(cats) ==
    IF cats = <<>> THEN <<>> ELSE Head(cats).items \o AllItems(Tail(cats))

\* A configuration with a single item: its calls of process_item are
\* sequential, one per invocation of the script.
Sequential(c) == Len(AllItems(c.cats)) = 1

\* How many times the script is invoked on configuration c.
Runs(c) == IF Sequential(c) THEN MaxSeqRuns ELSE MaxRuns

\* The documents the server may send in a behaviour with configuration c.
Served(c) == 1..(IF Sequential(c) THEN MaxSeqDocs ELSE MaxDocs)

\* The names a category's final files can have: its items and, by title, the
\* sanitized titles of the documents.
Bases(cat) ==
    {cat.items[k] : k \in 1..Len(cat.items)}
        \cup (IF cat.filename_mode = "title"
              THEN {Sanitize(RawTitle(d)) : d \in Docs} \ {""}
              ELSE {})

\* The paths of the final files and of the temporary files of configuration c;
\* every other path the script writes is in an archive folder.
FinalPaths(c) ==
    UNION {{c.cats[k].folder \o "/" \o b \o ".pdf" : b \in Bases(c.cats[k])} :
              k \in 1..Len(c.cats)}
TempPaths(c) ==
    UNION {{c.cats[k].folder \o "/" \o c.cats[k].items[j] \o "_new.pdf" :
              j \in 1..Len(c.cats[k].items)} : k \in 1..Len(c.cats)}

\* ------------------------------------------------------------------- state

VARIABLES
    cfg,     \* the configuration of the runs
    origin,  \* the folders at the first invocation: "empty" or "mirror"
    run,     \* number of the current invocation of main
    mainpc,  \* main's position: "loop", "submit", "wait", "exited"
    ci,      \* main: index of the category being handled
    ii,      \* main: index of the next item to submit
    tasks,   \* the futures of this run, in submission order
    history, \* single item: what the call of each earlier run fetched, named
             \* and printed
    dirs,    \* the directories that exist
    prepared,\* main: the categories prepare_folders was called for in this
             \* run, one entry per call
    fs,      \* the directory entries: path -> inode
    data,    \* the content of each live inode: a sequence of chunks
    clock    \* the wall clock, in seconds, when it was last read

vars == <<cfg, origin, run, mainpc, ci, ii, tasks, history, dirs, prepared, fs,
          data, clock>>

\* ------------------------------------------------------------- file system

\* os.path.join
Join(folder, name) == folder \o "/" \o name

Exists(p) == p \in DOMAIN fs

ReadFile(p) == data[fs[p]]

\* os.rename(src, dst) on an existing src: dst is replaced if it exists.
Rename(f, src, dst) ==
    [q \in (DOMAIN f \ {src}) \cup {dst} |-> IF q = dst THEN f[src] ELSE f[q]]

\* os.remove(p)
Unlink(f, p) == [q \in DOMAIN f \ {p} |-> f[q]]

\* f.write(chunk) at position pos of a file: the file grows as needed.
WriteAt(content, pos, chunk) ==
    [k \in 1..(IF pos > Len(content) THEN pos ELSE Len(content)) |->
        IF k = pos THEN chunk
        ELSE IF k <= Len(content) THEN content[k] ELSE <<0, 0>>]

\* The inodes some worker holds open for writing.
OpenInodes(ts) == {ts[i].fh : i \in 1..Len(ts)} \ {NoIno}

\* An inode lives while a path or an open handle refers to it.
Live(f, ts, d) ==
    [n \in {f[p] : p \in DOMAIN f} \cup OpenInodes(ts) |-> d[n]]

\* hashlib.sha256 of a file's bytes (collision-free on the model's contents).
Sha256(content) == <<"sha256", content>>

\* PdfReader(path).metadata.get('/Title'): a file that is not a complete
\* document does not parse.
Parses(content) == \E d \in Docs : content = Body(d)
MetaTitle(content) ==
    IF Parses(content)
    THEN RawTitle(CHOOSE d \in Docs : content = Body(d))
    ELSE Nil


\* datetime.now().strftime('%Y%m%d_%H%M%S'): one string per second.
Strftime(t) == "20250101_00000" \o ToString(t)

\* ------------------------------------------------------------------ network

\* What a requests.get answers; "error" stands for a raised
\* requests.exceptions.RequestException (connection refused, reset, ...).
Response(status, url) == [kind |-> "response", status_code |-> status, url |-> url]
NetworkError == [kind |-> "error"]
\* The server accepts the connection and never sends a response: requests.get
\* is called without timeout= and does not return.
NoAnswer == [kind |-> "silence"]

\* URLs are sequences of tokens; ".pdf" in resp.url is a search for the token.
Contains(url, tok) == \E k \in 1..Len(url) : url[k] = tok

\* The answers to the redirect-following GET of resolve_pdf_url for an item.
ResolveAnswers(item) ==
    { Response(200, <<"https://example/lit/", item, ".pdf">>),
      Response(200, <<"https://example/search/", item, ".html">>),
      Response(404, <<"https://example/lit/", item, ".pdf">>),
      NetworkError,
      NoAnswer }

\* resolve_pdf_url, given the response of its GET.
resolve_pdf_url(resp) ==
    IF resp.status_code = 200 /\ Contains(resp.url, ".pdf") THEN resp.url ELSE Nil

\* The answers to the streaming GET of download_file: a status and, with 200,
\* the document the server sends.
DownloadAnswers ==
    [kind : {"response"}, status_code : {200}, doc : Served(cfg)]
        \cup { [kind |-> "response", status_code |-> 404, doc |-> 0], NetworkError,
               NoAnswer }

\* -------------------------------------------------------------------- tasks

NewTask(cat, item) ==
    [ category       |-> cat.name,
      item           |-> item,
      folder         |-> cat.folder,
      archive_folder |-> Join(cat.folder, "archive"),
      filename_mode  |-> cat.filename_mode,
      pc             |-> "pending",
      url            |-> Nil,
      doc            |-> 0,       \* the document the server is sending
      fh             |-> NoIno,   \* the inode open for writing
      off            |-> 0,       \* chunks written through fh
      base           |-> None,    \* final_name without its ".pdf"
      old_hash       |-> Nil,
      new_hash       |-> Nil,
      timestamp      |-> None,
      exc            |-> None,    \* the exception the future holds
      at             |-> None,    \* the step that raised it
      printed        |-> <<>>,    \* the status lines printed
      harmed         |-> FALSE ]  \* download_file has changed a file that was
                                  \* there at a final path or in the archive

Terminal == {"done", "raised"}

\* The inode of the file the i-th call of a run creates.
NewInode(r, i) == "ino" \o ToString(r) \o "." \o ToString(i)

temp_file(t)     == Join(t.folder, t.item \o "_new.pdf")
final_name(t)    == t.base \o ".pdf"
final_file(t)    == Join(t.folder, final_name(t))
\* os.path.splitext(final_name)[0] gives back the name final_name was built from.
archived_name(t) == Join(t.archive_folder, t.base \o "_" \o t.timestamp \o ".pdf")

\* The process_item call returns: its locals are gone.
Return(t, line) ==
    [t EXCEPT !.pc = "done", !.fh = NoIno, !.off = 0, !.old_hash = Nil,
              !.new_hash = Nil, !.timestamp = None, !.url = Nil,
              !.printed = Append(@, line)]

\* The call does not return from requests.get: the worker stays in it.
Block(t) == [t EXCEPT !.pc = "blocked", !.at = t.pc]

\* An exception leaves process_item: the future holds it, nothing is printed.
Raise(t, e) ==
    [t EXCEPT !.pc = "raised", !.exc = e, !.at = t.pc, !.fh = NoIno, !.off = 0,
              !.old_hash = Nil, !.new_hash = Nil, !.timestamp = None,
              !.url = Nil]

Running == {i \in 1..Len(tasks) : tasks[i].pc \notin Terminal \cup {"pending"}}

\* The effect of one step of task i: its record, the directory, the contents.
Effect(i, t, f, d) ==
    LET changed == {p \in DOMAIN fs : p \notin DOMAIN f \/ d[f[p]] # data[fs[p]]}
        harm == /\ tasks[i].pc \in {"request", "stream"}
                /\ changed \ (TempPaths(cfg) \ FinalPaths(cfg)) # {}
        ts == [tasks EXCEPT ![i] = [t EXCEPT !.harmed = @ \/ harm]]
    IN
    /\ tasks' = ts
    /\ fs' = f
    /\ data' = Live(f, ts, d)
    /\ UNCHANGED <<cfg, origin, run, mainpc, ci, ii, history, dirs, prepared>>

\* A step that does not read the clock.
Step(i, t, f, d) == Effect(i, t, f, d) /\ UNCHANGED clock

\* --------------------------------------------------------------------- Init

\* The folders as an earlier invocation left them that found document 1 for
\* every item: one Document File per derived name, nothing else.
MirrorNames(cat) ==
    {(IF cat.filename_mode = "title" THEN Sanitize(RawTitle(1)) ELSE cat.items[k])
        \o ".pdf" : k \in 1..Len(cat.items)}
MirrorPaths(c) ==
    UNION {{Join(c.cats[k].folder, n) : n \in MirrorNames(c.cats[k])} : k \in 1..Len(c.cats)}
MirrorDirs(c) ==
    UNION {{c.cats[k].folder, Join(c.cats[k].folder, "archive")} : k \in 1..Len(c.cats)}

Init ==
    /\ cfg \in {c \in Configs : validate_config(c)}
    /\ origin \in IF Sequential(cfg) THEN {"empty"} ELSE {"empty", "mirror"}
    /\ run = 1
    /\ mainpc = "loop"
    /\ ci = 1
    /\ ii = 1
    /\ tasks = <<>>
    /\ history = <<>>
    /\ dirs = IF origin = "mirror" THEN MirrorDirs(cfg) ELSE {}
    /\ prepared = <<>>
    /\ fs = IF origin = "mirror"
            THEN [p \in MirrorPaths(cfg) |-> "ino0." \o p] ELSE <<>>
    /\ data = IF origin = "mirror"
              THEN [n \in {"ino0." \o p : p \in MirrorPaths(cfg)} |-> Body(1)] ELSE <<>>
    /\ clock = 0

\* --------------------------------------------------------------------- main

\* prepare_folders: both os.makedirs(..., exist_ok=True).
prepare_folders(folder) == dirs \cup {folder, Join(folder, "archive")}

\* main, for category, details in config.items(): archive_folder =
\* prepare_folders(folder), then the loop over the items.
MainPrepare ==
    /\ mainpc = "loop"
    /\ ci <= Len(cfg.cats)
    /\ dirs' = prepare_folders(cfg.cats[ci].folder)
    /\ prepared' = Append(prepared, cfg.cats[ci].name)
    /\ ii' = 1
    /\ IF cfg.cats[ci].items # <<>>
       THEN mainpc' = "submit" /\ ci' = ci
       ELSE /\ ci' = ci + 1
            /\ mainpc' = IF ci < Len(cfg.cats) THEN "loop" ELSE "wait"
    /\ UNCHANGED <<cfg, origin, run, tasks, history, fs, data, clock>>

\* main that calls prepare_folders for every item it submits.
MainSubmit_Preparing ==
    /\ mainpc = "submit"
    /\ tasks' = Append(tasks, NewTask(cfg.cats[ci], cfg.cats[ci].items[ii]))
    /\ dirs' = prepare_folders(cfg.cats[ci].folder)
    /\ prepared' = Append(prepared, cfg.cats[ci].name)
    /\ IF ii < Len(cfg.cats[ci].items)
       THEN ii' = ii + 1 /\ ci' = ci /\ mainpc' = "submit"
       ELSE /\ ii' = 1
            /\ ci' = ci + 1
            /\ mainpc' = IF ci < Len(cfg.cats) THEN "loop" ELSE "wait"
    /\ UNCHANGED <<cfg, origin, run, history, fs, data, clock>>

\* main: executor.submit(process_item, ...); tasks.append(future).
MainSubmit ==
    /\ mainpc = "submit"
    /\ tasks' = Append(tasks, NewTask(cfg.cats[ci], cfg.cats[ci].items[ii]))
    /\ IF ii < Len(cfg.cats[ci].items)
       THEN ii' = ii + 1 /\ ci' = ci /\ mainpc' = "submit"
       ELSE /\ ii' = 1
            /\ ci' = ci + 1
            /\ mainpc' = IF ci < Len(cfg.cats) THEN "loop" ELSE "wait"
    /\ UNCHANGED <<cfg, origin, run, history, dirs, prepared, fs, data, clock>>

\* main that prints its last line without waiting for the futures.
MainWait_NoJoin ==
    /\ mainpc = "wait"
    /\ mainpc' = "exited"
    /\ UNCHANGED <<cfg, origin, run, ci, ii, tasks, history, dirs, prepared, fs, data,
                   clock>>

\* main: the as_completed loop ends and the with block is left once every
\* future is done; a future's exception is never asked for. Then the last
\* line is printed and main returns.
MainWait ==
    /\ mainpc = "wait"
    /\ \A i \in 1..Len(tasks) : tasks[i].pc \in Terminal
    /\ mainpc' = "exited"
    /\ UNCHANGED <<cfg, origin, run, ci, ii, tasks, history, dirs, prepared, fs, data,
                   clock>>

\* The script is invoked again, with the same configuration, on the folders
\* the last run left.
NextRun ==
    /\ mainpc = "exited"
    /\ run < Runs(cfg)
    /\ run' = run + 1
    /\ mainpc' = "loop"
    /\ ci' = 1
    /\ ii' = 1
    /\ tasks' = <<>>
    /\ prepared' = <<>>
    /\ history' = IF Sequential(cfg)
                  THEN Append(history, [doc |-> tasks[1].doc, base |-> tasks[1].base,
                                        printed |-> tasks[1].printed])
                  ELSE history
    /\ UNCHANGED <<cfg, origin, dirs, fs, data, clock>>

\* ------------------------------------------------------------- process_item

\* A pool that starts a thread for every queued call.
TaskStart_Unbounded(i) ==
    /\ tasks[i].pc = "pending"
    /\ \A j \in 1..(i - 1) : tasks[j].pc # "pending"
    /\ Step(i, [tasks[i] EXCEPT !.pc = "resolve", !.printed = Append(@, "Checking")],
            fs, data)

\* A worker thread of the pool takes the oldest queued call; at most
\* args.threads workers exist. process_item prints "Checking...".
TaskStart(i) ==
    /\ tasks[i].pc = "pending"
    /\ \A j \in 1..(i - 1) : tasks[j].pc # "pending"
    /\ Cardinality(Running) < cfg.threads
    /\ Step(i, [tasks[i] EXCEPT !.pc = "resolve", !.printed = Append(@, "Checking")],
            fs, data)

\* process_item that sets out its temporary file before it resolves the URL.
TaskResolve_Touching(i) ==
    /\ tasks[i].pc = "resolve"
    /\ \E resp \in ResolveAnswers(tasks[i].item) :
          IF resp.kind = "error"
          THEN Step(i, Raise(tasks[i], "RequestException"), fs, data)
          ELSE IF resp.kind = "silence"
          THEN Step(i, Block(tasks[i]), fs, data)
          ELSE LET resolved_url == resolve_pdf_url(resp)
                   dest_path == temp_file(tasks[i])
                   ino == IF Exists(dest_path) THEN fs[dest_path] ELSE NewInode(run, i)
                   f == [q \in DOMAIN fs \cup {dest_path} |->
                           IF q = dest_path THEN ino ELSE fs[q]]
                   d == [n \in DOMAIN data \cup {ino} |->
                           IF n = ino THEN <<>> ELSE data[n]]
               IN
               IF resolved_url = Nil
               THEN Step(i, Return(tasks[i], "NotFound"), f, d)
               ELSE Step(i, [tasks[i] EXCEPT !.pc = "request", !.url = resolved_url],
                         f, d)

\* resolved_url = resolve_pdf_url(base_url, item); if not resolved_url: return
TaskResolve(i) ==
    /\ tasks[i].pc = "resolve"
    /\ \E resp \in ResolveAnswers(tasks[i].item) :
          IF resp.kind = "error"
          THEN Step(i, Raise(tasks[i], "RequestException"), fs, data)
          ELSE IF resp.kind = "silence"
          THEN Step(i, Block(tasks[i]), fs, data)
          ELSE LET resolved_url == resolve_pdf_url(resp) IN
               IF resolved_url = Nil
               THEN Step(i, Return(tasks[i], "NotFound"), fs, data)
               ELSE Step(i, [tasks[i] EXCEPT !.pc = "request", !.url = resolved_url],
                         fs, data)

\* download_file: resp = requests.get(url, stream=True); on status 200,
\* open(dest_path, 'wb') creates the file or truncates the one that is there.
TaskRequest(i) ==
    LET t == tasks[i]
        dest_path == temp_file(t)
        ino == IF Exists(dest_path) THEN fs[dest_path] ELSE NewInode(run, i)
    IN
    /\ t.pc = "request"
    /\ \E resp \in DownloadAnswers :
          IF resp.kind = "error"
          THEN Step(i, Raise(t, "RequestException"), fs, data)
          ELSE IF resp.kind = "silence"
          THEN Step(i, Block(t), fs, data)
          ELSE IF resp.status_code # 200
          THEN Step(i, Return(t, "DownloadFailed"), fs, data)
          ELSE Step(i, [t EXCEPT !.pc = "stream", !.doc = resp.doc, !.fh = ino, !.off = 0],
                    [q \in DOMAIN fs \cup {dest_path} |->
                        IF q = dest_path THEN ino ELSE fs[q]],
                    [n \in DOMAIN data \cup {ino} |->
                        IF n = ino THEN <<>> ELSE data[n]])

\* download_file: for chunk in resp.iter_content(1024): f.write(chunk). The
\* next chunk arrives and is written, or the connection breaks and
\* iter_content raises; the with block closes the file either way. After the
\* last chunk download_file returns True, and process_item goes on to the
\* final name: by item it is f"{item}.pdf", by title the file is read first.
TaskStream(i) ==
    LET t == tasks[i]
        chunk == Body(t.doc)[t.off + 1]
        written == [data EXCEPT ![t.fh] = WriteAt(@, t.off + 1, chunk)]
    IN
    /\ t.pc = "stream"
    /\ \/ Step(i, IF t.off + 1 < Len(Body(t.doc))
                  THEN [t EXCEPT !.off = @ + 1]
                  ELSE IF t.filename_mode = "title"
                  THEN [t EXCEPT !.pc = "title", !.fh = NoIno, !.off = 0]
                  ELSE [t EXCEPT !.pc = "exists", !.fh = NoIno, !.off = 0,
                                 !.base = t.item],
               fs, written)
       \/ Step(i, Raise(t, "ChunkedEncodingError"), fs, data)

\* get_pdf_title: any exception (no such file, not a PDF, no metadata) is
\* swallowed and None returned; an empty title is returned as None too.
get_pdf_title(path) ==
    IF ~Exists(path) THEN None
    ELSE LET title == MetaTitle(ReadFile(path)) IN
         IF title = Nil THEN None ELSE Sanitize(title)

\* process_item that takes whatever get_pdf_title returned as the name.
TaskTitle_NoFallback(i) ==
    /\ tasks[i].pc = "title"
    /\ Step(i, [tasks[i] EXCEPT !.pc = "exists",
                                !.base = get_pdf_title(temp_file(tasks[i]))], fs, data)

\* process_item, filename_mode == "title": title = get_pdf_title(temp_file);
\* if not title: title = item.
TaskTitle(i) ==
    LET t == tasks[i]
        title == get_pdf_title(temp_file(t))
    IN
    /\ t.pc = "title"
    /\ IF title = None \/ title = ""
       THEN Step(i, [t EXCEPT !.pc = "exists", !.base = t.item,
                              !.printed = Append(@, "NoTitle")], fs, data)
       ELSE Step(i, [t EXCEPT !.pc = "exists", !.base = title], fs, data)

\* if os.path.exists(final_file)
TaskExists(i) ==
    LET t == tasks[i] IN
    /\ t.pc = "exists"
    /\ Step(i, [t EXCEPT !.pc = IF Exists(final_file(t)) THEN "hash_old" ELSE "first"],
            fs, data)

\* A checksum of the file's name, not of its bytes.
file_checksum_of_name(path) == Sha256(<<path>>)

\* file_checksum: open(path, 'rb') raises when the file is gone.
file_checksum(path) == Sha256(ReadFile(path))

\* old_hash = file_checksum(final_file)
TaskHashOld(i) ==
    LET t == tasks[i] IN
    /\ t.pc = "hash_old"
    /\ IF Exists(final_file(t))
       THEN Step(i, [t EXCEPT !.pc = "hash_new", !.old_hash = file_checksum(final_file(t))],
                 fs, data)
       ELSE Step(i, Raise(t, "FileNotFoundError"), fs, data)

\* new_hash = file_checksum(temp_file); if old_hash != new_hash: timestamp =
\* datetime.now().strftime(...). The clock has not gone back since it was
\* last read.
TaskHashNew(i) ==
    LET t == tasks[i] IN
    /\ t.pc = "hash_new"
    /\ IF Exists(temp_file(t))
       THEN LET new_hash == file_checksum(temp_file(t)) IN
            IF t.old_hash # new_hash
            THEN \E now \in clock..MaxClock :
                    /\ clock' = now
                    /\ Effect(i, [t EXCEPT !.pc = "archive", !.new_hash = new_hash,
                                           !.timestamp = Strftime(now)], fs, data)
            ELSE Step(i, [t EXCEPT !.pc = "remove", !.new_hash = new_hash], fs, data)
       ELSE Step(i, Raise(t, "FileNotFoundError"), fs, data)

\* shutil.move(src, dst) of a file within one file system: os.rename, which
\* raises when src is gone.
shutil_move(src, dst) == Rename(fs, src, dst)

\* shutil.move(final_file, archived_name)
TaskArchive(i) ==
    LET t == tasks[i] IN
    /\ t.pc = "archive"
    /\ IF Exists(final_file(t))
       THEN Step(i, [t EXCEPT !.pc = "swap"],
                 shutil_move(final_file(t), archived_name(t)), data)
       ELSE Step(i, Raise(t, "FileNotFoundError"), fs, data)

\* shutil.move(temp_file, final_file); print "Updated. Old version archived."
TaskSwap(i) ==
    LET t == tasks[i] IN
    /\ t.pc = "swap"
    /\ IF Exists(temp_file(t))
       THEN Step(i, Return(t, "Updated"), shutil_move(temp_file(t), final_file(t)), data)
       ELSE Step(i, Raise(t, "FileNotFoundError"), fs, data)

\* os.remove(temp_file); print "Up to date."
TaskRemove(i) ==
    LET t == tasks[i] IN
    /\ t.pc = "remove"
    /\ IF Exists(temp_file(t))
       THEN Step(i, Return(t, "UpToDate"), Unlink(fs, temp_file(t)), data)
       ELSE Step(i, Raise(t, "FileNotFoundError"), fs, data)

\* else: shutil.move(temp_file, final_file); print "Downloaded."
TaskFirst(i) ==
    LET t == tasks[i] IN
    /\ t.pc = "first"
    /\ IF Exists(temp_file(t))
       THEN Step(i, Return(t, "Downloaded"), shutil_move(temp_file(t), final_file(t)), data)
       ELSE Step(i, Raise(t, "FileNotFoundError"), fs, data)

\* One step of the call process_item(...) that future i stands for.
process_item(i) ==
    \/ TaskStart(i)
    \/ TaskResolve(i)
    \/ TaskRequest(i)
    \/ TaskStream(i)
    \/ TaskTitle(i)
    \/ TaskExists(i)
    \/ TaskHashOld(i)
    \/ TaskHashNew(i)
    \/ TaskArchive(i)
    \/ TaskSwap(i)
    \/ TaskRemove(i)
    \/ TaskFirst(i)

main == MainPrepare \/ MainSubmit \/ MainWait

Next ==
    \/ MainPrepare
    \/ MainSubmit
    \/ MainWait
    \/ \E i \in 1..Len(tasks) : TaskStart(i)
    \/ \E i \in 1..Len(tasks) : TaskResolve(i)
    \/ \E i \in 1..Len(tasks) : TaskRequest(i)
    \/ \E i \in 1..Len(tasks) : TaskStream(i)
    \/ \E i \in 1..Len(tasks) : TaskTitle(i)
    \/ \E i \in 1..Len(tasks) : TaskExists(i)
    \/ \E i \in 1..Len(tasks) : TaskHashOld(i)
    \/ \E i \in 1..Len(tasks) : TaskHashNew(i)
    \/ \E i \in 1..Len(tasks) : TaskArchive(i)
    \/ \E i \in 1..Len(tasks) : TaskSwap(i)
    \/ \E i \in 1..Len(tasks) : TaskRemove(i)
    \/ \E i \in 1..Len(tasks) : TaskFirst(i)
    \/ NextRun

Spec == Init /\ [][Next]_vars

\* The threads get to run and the file system calls return: whenever a step
\* of main or of a worker is possible, a step is taken. A request the server
\* never answers enables no step.
FairSpec == Spec /\ WF_vars(Next)

\* ------------------------------------------------------------------ claims

Content(p) == data[fs[p]]

\* The files in the archive folders and their contents.
ArchivePaths == DOMAIN fs \ (FinalPaths(cfg) \cup TempPaths(cfg))
ArchiveContents == {Content(p) : p \in ArchivePaths}

Last(s) == s[Len(s)]

\* download_file returned True for this call: the final name has been derived.
Fetched(t) == t.base # None

\* The Fetcher failed for this call: a status other than 200, or an exception
\* of the request or in mid-stream.
FetchFailed(t) ==
    \/ t.pc = "done" /\ Last(t.printed) = "DownloadFailed"
    \/ t.pc = "raised" /\ t.at \in {"request", "stream"}

\* C1: a Document File is archived before it is overwritten: whenever a step
\* changes the content of the file at a final path, the content the file held
\* is in the archive folder afterwards.
C1_ArchivedBeforeOverwritten ==
    [][\A p \in FinalPaths(cfg) :
          (p \in DOMAIN fs /\ p \in DOMAIN fs' /\ data'[fs'[p]] # data[fs[p]])
             => \E q \in DOMAIN fs' \ (FinalPaths(cfg) \cup TempPaths(cfg)) :
                   data'[fs'[q]] = data[fs[p]]]_vars

\* The documents the single call of each run so far has fetched.
FetchedDocs == [k \in 1..run |-> IF k < run THEN history[k].doc ELSE tasks[1].doc]

\* The single item's run number k fetched its document.
RunFetched(k) == IF k < run THEN Fetched(history[k]) ELSE Fetched(tasks[1])

\* C2: no data loss, for the by-identifier policy: after N sequential runs on
\* one identifier, each of which fetched a content different from all the
\* others, the archive folder holds N-1 files, the final path holds the N-th
\* content and no two of the N files are identical.
C2_NoDataLoss ==
    ( /\ Sequential(cfg)
      /\ cfg.cats[1].filename_mode = "item"
      /\ mainpc = "exited"
      /\ \A k \in 1..run : RunFetched(k)
      /\ \A k, l \in 1..run : k # l => FetchedDocs[k] # FetchedDocs[l] )
    => /\ Cardinality(ArchivePaths) = run - 1
       /\ Exists(final_file(tasks[1]))
       /\ Content(final_file(tasks[1])) = Body(FetchedDocs[run])
       /\ \A p, q \in ArchivePaths \cup {final_file(tasks[1])} :
             p # q => Content(p) # Content(q)

\* C3: once a call has ended, done or with an exception, its temporary file
\* does not exist (stated for a temporary path that is no other call's
\* temporary or final path).
C3_NoTemporaryFileLeft ==
    \A i \in 1..Len(tasks) :
       ( /\ tasks[i].pc \in Terminal
         /\ temp_file(tasks[i]) \notin FinalPaths(cfg)
         /\ \A j \in 1..Len(tasks) : tasks[j].item = tasks[i].item => j = i )
       => ~Exists(temp_file(tasks[i]))

\* C4: a failed fetch is atomic: a call whose fetch failed has changed no file
\* that was there at a final path and nothing in the archive folder.
C4_FailedFetchAtomic ==
    \A i \in 1..Len(tasks) : FetchFailed(tasks[i]) => ~tasks[i].harmed

\* C5: when the final file exists and its digest equals the temporary file's,
\* the call's remaining step deletes the temporary file, changes nothing else
\* and ends done.
C5_NoOpOnEqualDigest ==
    [][\A i \in 1..Len(tasks) :
          (i <= Len(tasks') /\ tasks[i].pc = "remove" /\ tasks'[i] # tasks[i])
             => /\ tasks'[i].pc = "done"
                /\ Last(tasks'[i].printed) = "UpToDate"
                /\ DOMAIN fs' = DOMAIN fs \ {temp_file(tasks[i])}
                /\ \A p \in DOMAIN fs' : data'[fs'[p]] = data[fs[p]]]_vars

FailedEarly(t) ==
    \/ t.pc = "done" /\ Last(t.printed) \in {"NotFound", "DownloadFailed"}
    \/ t.pc = "raised" /\ t.at \in {"resolve", "request", "stream"}

\* C7: failure isolation: in a run on empty folders in which every call but
\* one failed, the call that did not fail ends as it would have alone: it
\* prints "Downloaded.", its Document File holds the document it fetched, its
\* temporary file is gone and the archive folder is empty.
C7_FailureIsolation ==
    (origin = "empty" /\ run = 1 /\ mainpc = "exited")
    => \A j \in 1..Len(tasks) :
          ( /\ Fetched(tasks[j])
            /\ \A i \in 1..Len(tasks) : i # j => FailedEarly(tasks[i]) )
          => /\ tasks[j].pc = "done"
             /\ Last(tasks[j].printed) = "Downloaded"
             /\ Exists(final_file(tasks[j]))
             /\ Content(final_file(tasks[j])) = Body(tasks[j].doc)
             /\ ArchivePaths = {}

\* C8: no two calls for the same (category, item) and folder are in flight at
\* the same time.
C8_NoConcurrentSameTask ==
    \A i, j \in Running :
       ( /\ tasks[i].category = tasks[j].category
         /\ tasks[i].item = tasks[j].item
         /\ tasks[i].folder = tasks[j].folder )
       => i = j

\* The call has created its temporary file and has not ended.
HoldsTemp(t) ==
    t.pc \in {"stream", "title", "exists", "hash_old", "hash_new", "archive",
              "swap", "remove", "first"}

\* C9: the temporary file belongs to the call that created it: no call with
\* another item takes the temporary file of a call in flight for an existing
\* Document File (to hash it, archive it or replace it).
C9_TemporaryFileExclusive ==
    \A i, j \in 1..Len(tasks) :
       ( /\ tasks[i].item # tasks[j].item
         /\ HoldsTemp(tasks[j])
         /\ tasks[i].pc \in {"hash_old", "hash_new", "archive"} )
       => final_file(tasks[i]) # temp_file(tasks[j])

\* C10: resolve_pdf_url never raises: no call ends with an exception raised
\* while resolving.
C10_ResolveNeverRaises ==
    \A i \in 1..Len(tasks) : ~(tasks[i].pc = "raised" /\ tasks[i].at = "resolve")

\* The lines process_item prints when it ends: the outcome of the call.
StatusLines == {"NotFound", "DownloadFailed", "Downloaded", "UpToDate", "Updated"}

\* C11: every call that has ended, done or with an exception, has printed
\* exactly one line that tells its outcome.
C11_EveryTaskReports ==
    \A i \in 1..Len(tasks) :
       tasks[i].pc \in Terminal
          => Cardinality({k \in 1..Len(tasks[i].printed) :
                            tasks[i].printed[k] \in StatusLines}) = 1

\* C12: main has printed its last line and returned only when every call it
\* submitted has ended.
C12_RunCompletesAfterAllTasks ==
    mainpc = "exited" => \A i \in 1..Len(tasks) : tasks[i].pc \in Terminal

\* A run of two calls has ended, one of them with an exception.
C12_Witness ==
    /\ mainpc = "exited"
    /\ Len(tasks) = 2
    /\ \E i \in 1..2 : tasks[i].pc = "raised"
    /\ \E i \in 1..2 : tasks[i].pc = "done"

\* C13: bounded parallelism: the calls of process_item in execution are never
\* more than args.threads, however many have been submitted.
C13_BoundedParallelism == Cardinality(Running) <= cfg.threads

\* Every worker is busy and a submitted call waits in the queue.
C13_Witness ==
    /\ Cardinality(Running) = cfg.threads
    /\ Len(tasks) > cfg.threads
    /\ \E i \in 1..Len(tasks) : tasks[i].pc = "pending"
    /\ \E i \in 1..Len(tasks) : tasks[i].pc = "stream"

\* The file at path gives no title: it is not there, it is not a document
\* that can be read, it has no /Title, or nothing is left of its /Title once
\* the illegal characters and the blanks around it are removed.
NoTitleIn(path) ==
    \/ ~Exists(path)
    \/ ~Parses(ReadFile(path))
    \/ MetaTitle(ReadFile(path)) = Nil
    \/ Sanitize(MetaTitle(ReadFile(path))) = ""

C15_ArchiveWriteOnce ==
    [][\A p \in ArchivePaths :
          p \in DOMAIN fs' /\ data'[fs'[p]] = data[fs[p]]]_vars

\* The content is the complete body of one document the server sends.
Complete(content) == \E d \in Docs : content = Body(d)

\* C16: no partial writes: the file at a final path always holds the complete
\* body of one fetched document.
C16_NoPartialWrites ==
    \A p \in FinalPaths(cfg) : Exists(p) => Complete(Content(p))

\* Two calls of the run, for different items, have fetched their documents
\* and derived the same final name by title.
SameTitle(i, j) ==
    /\ i # j
    /\ tasks[i].filename_mode = "title"
    /\ tasks[i].item # tasks[j].item
    /\ tasks[i].folder = tasks[j].folder
    /\ Fetched(tasks[i])
    /\ Fetched(tasks[j])
    /\ tasks[i].base = tasks[j].base

\* C17: two calls that derive the same final name both end done, neither
\* leaves its temporary file, and the final path holds the document of one of
\* them (of the one that moved last).
C17_TitleCollisionLastWriterWins ==
    mainpc = "exited"
    => \A i, j \in 1..Len(tasks) :
          SameTitle(i, j)
          => /\ tasks[i].pc = "done"
             /\ tasks[j].pc = "done"
             /\ ~Exists(temp_file(tasks[i]))
             /\ ~Exists(temp_file(tasks[j]))
             /\ Exists(final_file(tasks[i]))
             /\ Content(final_file(tasks[i])) \in {Body(tasks[i].doc), Body(tasks[j].doc)}

\* The call ended because resolve_pdf_url returned None.
Unresolved(t) == t.pc = "done" /\ Last(t.printed) = "NotFound"

\* C18: a call for which resolve_pdf_url returns None has no effect on the
\* file system: none of its steps changes a directory, a path or a content,
\* and it never enters download_file or the comparison.
C18_NotFoundNoSideEffect ==
    [][\A i \in 1..Len(tasks) :
          (i <= Len(tasks') /\ tasks'[i] # tasks[i])
             => /\ tasks[i].pc \in {"pending", "resolve"}
                   => fs' = fs /\ data' = data /\ dirs' = dirs
                /\ Unresolved(tasks'[i])
                   => /\ tasks[i].pc = "resolve"
                      /\ tasks'[i].harmed = FALSE
                      /\ tasks'[i].doc = 0
                      /\ tasks'[i].base = None
                      /\ tasks'[i].fh = NoIno]_vars

\* A call ended not found beside a file of an earlier run.
C18_Witness ==
    \E i \in 1..Len(tasks) :
       /\ Unresolved(tasks[i])
       /\ DOMAIN fs # {}
       /\ ~Exists(temp_file(tasks[i]))

\* C19: folder setup precedes dispatch: prepare_folders is called at most once
\* for a category in a run, every submitted call's category has had its call
\* and its folder and archive folder exist, and once all is submitted every
\* category has had exactly one call.
C19_PrepareOncePerCategory ==
    /\ \A k, l \in 1..Len(prepared) : prepared[k] = prepared[l] => k = l
    /\ \A i \in 1..Len(tasks) :
          /\ \E k \in 1..Len(prepared) : prepared[k] = tasks[i].category
          /\ tasks[i].folder \in dirs
          /\ tasks[i].archive_folder \in dirs
    /\ mainpc \in {"wait", "exited"}
          => /\ Len(prepared) = Len(cfg.cats)
             /\ \A c \in 1..Len(cfg.cats) :
                   \E k \in 1..Len(prepared) : prepared[k] = cfg.cats[c].name

\* Two calls of one category are submitted, one is under way, and
\* prepare_folders was called once, on folders that did not exist.
C19_Witness ==
    /\ origin = "empty"
    /\ Len(tasks) = 2
    /\ tasks[1].category = tasks[2].category
    /\ Len(prepared) = 1
    /\ tasks[1].pc = "stream"

\* C20: every submitted call eventually ends, done or failed, whatever the
\* servers do: once main waits for its futures, all of them end.
C20_EveryTaskEnds ==
    (mainpc = "wait") ~> (\A i \in 1..Len(tasks) : tasks[i].pc \in Terminal)

=============================================================================
